---- MODULE Spec2Model ----
(***************************************************************************)
(* A model of stonkscheme: the expression tree (ast.rs), the environment   *)
(* and the tree-walking evaluator (interpreter.rs), the interning source   *)
(* store (code.rs) and the parser entry points (parser.rs).                *)
(*                                                                         *)
(* Interpreter::eval is recursive in the source.  Here the recursion is an *)
(* explicit call stack: one frame per active call of eval, one action per  *)
(* point where the source calls eval, returns, panics or dispatches.       *)
(***************************************************************************)
EXTENDS Integers, Sequences, FiniteSets, TLC

VARIABLES
    scopes,     \* the heap of Arc<Mutex<Scope>>: scopes[i] is the map of scope i
    handles,    \* the Env values: handles[h] is scope_stack, a sequence of scope ids
    status,     \* the evaluating process: idle, running, done, panicked, overflow
    stack,      \* the active calls of Interpreter::eval, outermost first
    result,     \* what the outermost eval returned (or the panic that ended it)
    log,        \* history: the eval calls and primitive applications of this call
    writes,     \* history: how many times this call has written to the environment
    call,       \* history: the expression handed to the running call, and the scopes it found
    observed,   \* what the latest get through a handle returned
    lastSet,    \* history: for each key, the handle and value of the latest set
    scopeLock,  \* the Mutex of each scope: scopeLock[s] is the thread that holds scope s
    worker,     \* the threads that call Env::get / Env::set: where each is in its call
    atlas,      \* CODE_ATLAS: the map from a digest to its Arc<Code>
    buffers,    \* the heap of Arc<Code>: buffers[i] is the Code of allocation i
    atlasLock,  \* the Mutex of CODE_ATLAS: the loader that holds it, or 0
    loader,     \* the threads that load: where each is in from_snippet / from_file
    loaded,     \* history: the loads that have returned, as <<text, file_path, handle>>
    source,     \* the text handed to parse_snippet
    parsed,     \* what parse_snippet returned
    repl,       \* the REPL of main.rs: where its loop is, and what it printed last
    overflow_checks  \* the build: whether integer arithmetic is compiled with overflow checks

evalVars == <<status, stack, result, log, writes, call>>
envVars == <<observed, lastSet, scopeLock, worker>>
codeVars == <<atlas, buffers, atlasLock, loader, loaded>>

parseVars == <<source, parsed, repl>>
vars == <<scopes, handles, evalVars, envVars, codeVars, parseVars, overflow_checks>>

(***************************************************************************)
(* Bounds of the model.                                                    *)
(***************************************************************************)
\* The longest argument list of a generated program.
MaxArgs == 3
\* The host call stack: the number of nested eval calls it can hold.
MaxStackDepth == 8
\* How many Env handles a caller creates.
MaxHandles == 2
\* How many threads load source text at the same time.
MaxLoaders == 2

(***************************************************************************)
(* ast.rs: Expr.  A value is a tuple whose first element is the variant.   *)
(* An f64 is held as a decimal <<m, e>>, m * 10^e with m not a multiple of *)
(* 10 (zero is <<0, 0>>), and added exactly; f64 rounds where the decimal  *)
(* has no binary form, which no sum of the model depends on.               *)
(***************************************************************************)
RECURSIVE Pow10(_)
Pow10(k) == IF k = 0 THEN 1 ELSE 10 * Pow10(k - 1)

RECURSIVE F64(_, _)
F64(m, e) ==
    IF m = 0 THEN <<0, 0>>
    ELSE IF m % 10 = 0 THEN F64(m \div 10, e + 1)
    ELSE <<m, e>>

\* a + b on f64
F64Add(a, b) ==
    LET e == IF a[2] < b[2] THEN a[2] ELSE b[2]
    IN  F64(a[1] * Pow10(a[2] - e) + b[1] * Pow10(b[2] - e), e)

\* f as i64
F64Truncate(f) ==
    IF f[2] >= 0 THEN f[1] * Pow10(f[2]) ELSE f[1] \div Pow10(0 - f[2])

\* i64.  An i64 is held as <<q, r>>, the integer q * 2^63 + r with r near
\* zero: 1 is <<0, 1>>, i64::MAX is <<1, -1>> and i64::MIN is <<-1, 0>>.  Such
\* pairs add exactly, whatever the sum.
I64(i) == <<0, i>>
I64Max == <<1, -1>>
I64Min == <<-1, 0>>

WideAdd(a, b) == <<a[1] + b[1], a[2] + b[2]>>

\* i64::MIN <= w <= i64::MAX
InI64(w) == w[1] = 0 \/ (w[1] = 1 /\ w[2] < 0) \/ (w[1] = -1 /\ w[2] >= 0)

\* An integer taken modulo 2^64 into the range (two's complement), for the sum
\* of two i64.
Wrapped(w) ==
    IF InI64(w) THEN w
    ELSE IF w[1] > 0 THEN <<w[1] - 2, w[2]>>
    ELSE <<w[1] + 2, w[2]>>

Nil == <<"Nil">>
Comment(s) == <<"Comment", s>>
Combination(target, args) == <<"Combination", target, args>>
Symbol(s) == <<"Symbol", s>>
Boolean(b) == <<"Boolean", b>>
Float(f) == <<"Float", f>>
String(s) == <<"String", s>>
\* Expr::Integer(n) of an i64 n, and of the i64 that is the small integer i
Integer64(n) == <<"Integer", n>>
Integer(i) == Integer64(I64(i))

IsCombination(e) == e[1] = "Combination"
IsSymbol(e) == e[1] = "Symbol"

\* Result<Expr, String>, and the panic that ends the process instead.
Ok(v) == <<"Ok", v>>
Err(msg) == <<"Err", msg>>
Panic(msg) == <<"Panic", msg>>
NoResult == <<"NoResult">>

(***************************************************************************)
(* interpreter.rs: Env and Scope.                                          *)
(***************************************************************************)
\* The primitives' names, and the names the programs of the model bind or look up.
PrimitiveNames == {"set", "get", "car", "cdr", "cons", "if", "+"}
Keys == {"x", "y"}

Unbound == <<"Unbound">>
\* Scope(IndexMap::new())
EmptyScope == [k \in Keys |-> Unbound]

\* Option<Expr>
None == <<"None">>
Some(v) == <<"Some", v>>

\* Env::get: for scope in self.scope_stack.iter().rev(), first match wins.
RECURSIVE EnvGetFrom(_, _, _, _)
EnvGetFrom(sc, scope_stack, key, i) ==
    IF i = 0 THEN None
    ELSE IF sc[scope_stack[i]][key] # Unbound
         THEN Some(sc[scope_stack[i]][key])
         ELSE EnvGetFrom(sc, scope_stack, key, i - 1)

\* A lookup that stops at the innermost scope.
EnvGetInnermostOnly(sc, scope_stack, key) ==
    IF Len(scope_stack) > 0 /\ sc[scope_stack[Len(scope_stack)]][key] # Unbound
    THEN Some(sc[scope_stack[Len(scope_stack)]][key])
    ELSE None

EnvGet(sc, scope_stack, key) == EnvGetFrom(sc, scope_stack, key, Len(scope_stack))

\* A write that goes to the outermost scope.
EnvSetOutermost(sc, scope_stack, key, value) ==
    IF Len(scope_stack) > 0
    THEN [sc EXCEPT ![scope_stack[1]][key] = value]
    ELSE sc

\* Env::set: insert into scope_stack.back_mut(), when there is one.
EnvSet(sc, scope_stack, key, value) ==
    IF Len(scope_stack) > 0
    THEN [sc EXCEPT ![scope_stack[Len(scope_stack)]][key] = value]
    ELSE sc

\* builtin_set / builtin_get
builtin_set(sc, env, key, value) == EnvSet(sc, env, key, value)

\* A get that answers false for a name that is bound nowhere.
builtin_getFalseWhenUnbound(sc, env, key) ==
    LET found == EnvGet(sc, env, key)
    IN  IF found = None THEN Boolean(FALSE) ELSE found[2]

builtin_get(sc, env, key) ==
    LET found == EnvGet(sc, env, key)
    IN  IF found = None THEN Nil ELSE found[2]

(***************************************************************************)
(* interpreter.rs: the arms of Interpreter::eval's dispatch.  Each yields  *)
(* what the arm does: return a Result, panic, or (the if arm) call eval on *)
(* the condition; and the scopes as the arm leaves them.                   *)
(***************************************************************************)
Return(r, sc) == [kind |-> "return", value |-> r, scopes |-> sc]
Panics(msg, sc) == [kind |-> "panic", value |-> Panic(msg), scopes |-> sc]
EvalCondition(sc) == [kind |-> "eval_cond", value |-> NoResult, scopes |-> sc]

SetArm(new_args, sc, env) ==
    IF Len(new_args) >= 1 /\ IsSymbol(new_args[1])
    THEN IF Len(new_args) >= 2
         THEN Return(Ok(Nil), builtin_set(sc, env, new_args[1][2], new_args[2]))
         ELSE Panics("set requires two arguments", sc)
    ELSE Panics("set requires a Symbol key", sc)

GetArm(new_args, sc, env) ==
    IF Len(new_args) >= 1 /\ IsSymbol(new_args[1])
    THEN Return(Ok(builtin_get(sc, env, new_args[1][2])), sc)
    ELSE Panics("get requires a Symbol key", sc)

CarArm(new_args, sc) ==
    IF Len(new_args) >= 1 /\ IsCombination(new_args[1])
    THEN Return(Ok(new_args[1][2]), sc)
    ELSE Panics("car requires a list", sc)

\* A cdr that drops the first element and keeps the operator.
CdrArmKeepsOperator(new_args, sc) ==
    IF Len(new_args) >= 1 /\ IsCombination(new_args[1])
    THEN IF Len(new_args[1][3]) > 1
         THEN Return(Ok(Combination(new_args[1][2], Tail(new_args[1][3]))), sc)
         ELSE Panics("cdr requires a list with at least two elements", sc)
    ELSE Panics("car requires a list", sc)

CdrArm(new_args, sc) ==
    IF Len(new_args) >= 1 /\ IsCombination(new_args[1])
    THEN IF Len(new_args[1][3]) > 1
         THEN Return(Ok(Combination(new_args[1][3][1], Tail(new_args[1][3]))), sc)
         ELSE Panics("cdr requires a list with at least two elements", sc)
    ELSE Panics("car requires a list", sc)

ConsArm(new_args, sc) ==
    IF Len(new_args) >= 1 /\ IsCombination(new_args[1])
    THEN IF Len(new_args[1][3]) > 0
         THEN Return(Ok(Combination(new_args[1][2], new_args[1][3])), sc)
         ELSE Panics("cons requires a list", sc)
    ELSE Panics("cons requires a list", sc)

\* An if arm that takes whatever is not false for true.
IfBranchTruthy(new_args, condition) ==
    IF condition = Boolean(FALSE) THEN Ok(new_args[3]) ELSE Ok(new_args[2])

\* The if arm once eval of the condition has returned.
IfBranch(new_args, condition) ==
    IF condition = Boolean(TRUE) THEN Ok(new_args[2])
    ELSE IF condition = Boolean(FALSE) THEN Ok(new_args[3])
    ELSE Panic("if requires a boolean condition")

\* An if arm that takes the evaluated condition as it is.
IfArmWithoutSecondEval(new_args, sc) ==
    IF Len(new_args) = 3
    THEN [kind |-> IF IfBranch(new_args, new_args[1])[1] = "Panic" THEN "panic" ELSE "return",
          value |-> IfBranch(new_args, new_args[1]),
          scopes |-> sc]
    ELSE Panics("if requires three arguments", sc)

IfArm(new_args, sc) ==
    IF Len(new_args) = 3
    THEN EvalCondition(sc)
    ELSE Panics("if requires three arguments", sc)

\* enum Number, as the + arm uses it.
Zero == <<"Zero">>
Signed(n) == <<"Signed", n>>
NumFloat(f) == <<"Float", f>>

\* n as f64, for an n near zero (the floats of the model meet no other)
AsFloat(n) == F64(n[2], 0)

\* n + *i on i64: with overflow checks the addition panics when the sum leaves
\* the range, without them it wraps.
I64Add(n, i) ==
    IF InI64(WideAdd(n, i)) THEN Ok(Signed(WideAdd(n, i)))
    ELSE IF overflow_checks THEN Panic("attempt to add with overflow")
    ELSE Ok(Signed(Wrapped(WideAdd(n, i))))

\* A loop that keeps an integer accumulator an integer when a float arrives.
PlusStepWithoutPromotion(number, arg) ==
    IF number = Zero /\ arg[1] = "Integer" THEN Ok(Signed(arg[2]))
    ELSE IF number = Zero /\ arg[1] = "Float" THEN Ok(NumFloat(arg[2]))
    ELSE IF number[1] = "Signed" /\ arg[1] = "Integer" THEN I64Add(number[2], arg[2])
    ELSE IF number[1] = "Signed" /\ arg[1] = "Float" THEN I64Add(number[2], I64(F64Truncate(arg[2])))
    ELSE IF number[1] = "Float" /\ arg[1] = "Float" THEN Ok(NumFloat(F64Add(number[2], arg[2])))
    ELSE IF number[1] = "Float" /\ arg[1] = "Integer" THEN Ok(NumFloat(F64Add(number[2], AsFloat(arg[2]))))
    ELSE Err(<<"Invalid argument for '+': expected Integer or Float, found", arg>>)

\* One turn of the + arm's loop: match (number, arg).
PlusStep(number, arg) ==
    IF number = Zero /\ arg[1] = "Integer" THEN Ok(Signed(arg[2]))
    ELSE IF number = Zero /\ arg[1] = "Float" THEN Ok(NumFloat(arg[2]))
    ELSE IF number[1] = "Signed" /\ arg[1] = "Integer" THEN I64Add(number[2], arg[2])
    ELSE IF number[1] = "Signed" /\ arg[1] = "Float" THEN Ok(NumFloat(F64Add(AsFloat(number[2]), arg[2])))
    ELSE IF number[1] = "Float" /\ arg[1] = "Float" THEN Ok(NumFloat(F64Add(number[2], arg[2])))
    ELSE IF number[1] = "Float" /\ arg[1] = "Integer" THEN Ok(NumFloat(F64Add(number[2], AsFloat(arg[2]))))
    ELSE Err(<<"Invalid argument for '+': expected Integer or Float, found", arg>>)

\* for arg in new_args.iter() { ... }, then the conversion of the accumulator.
RECURSIVE PlusLoop(_, _, _)
PlusLoop(number, new_args, i) ==
    IF i > Len(new_args)
    THEN IF number = Zero THEN Ok(Integer(0))
         ELSE IF number[1] = "Signed" THEN Ok(Integer64(number[2]))
         ELSE Ok(Float(number[2]))
    ELSE LET step == PlusStep(number, new_args[i])
         IN  IF step[1] # "Ok" THEN step
             ELSE PlusLoop(step[2], new_args, i + 1)

PlusArm(new_args, sc) ==
    LET r == PlusLoop(Zero, new_args, 1)
    IN  IF r[1] = "Panic" THEN Panics(r[2], sc) ELSE Return(r, sc)

\* A dispatch that rejects what it does not know.
OtherArmRejects(target, new_args, sc) == Return(Err(<<"unknown operator", target>>), sc)

\* A target that is no primitive, or no symbol.
OtherArm(target, new_args, sc) == Return(Ok(Combination(target, new_args)), sc)

\* match target.clone() { Expr::Symbol(symbol) => match symbol.0.as_str() ... }
Dispatch(target, new_args, sc, env) ==
    IF IsSymbol(target)
    THEN CASE target[2] = "set" -> SetArm(new_args, sc, env)
           [] target[2] = "get" -> GetArm(new_args, sc, env)
           [] target[2] = "car" -> CarArm(new_args, sc)
           [] target[2] = "cdr" -> CdrArm(new_args, sc)
           [] target[2] = "cons" -> ConsArm(new_args, sc)
           [] target[2] = "if" -> IfArm(new_args, sc)
           [] target[2] = "+" -> PlusArm(new_args, sc)
           [] OTHER -> OtherArm(target, new_args, sc)
    ELSE OtherArm(target, new_args, sc)

(***************************************************************************)
(* The call stack of Interpreter::eval.                                    *)
(*   pc = "enter"   the call has begun (match expr)                        *)
(*   pc = "target"  self.eval(target)? is running          (line 66)       *)
(*   pc = "args"    the loop over args                     (lines 68-71)   *)
(*   pc = "cond"    the if arm's self.eval(&new_args[0])?  (line 125)      *)
(*   pc = "branch"  the if arm holds the condition         (lines 126-132) *)
(* path tells which node of the program the call evaluates: 0 is a         *)
(* combination's operator, i its i-th argument, and (number of arguments   *)
(* + 1) the if arm's second evaluation of the condition.  at_entry is the  *)
(* number of writes to the environment made before the call (history):     *)
(* two calls with the same at_entry found the same environment.            *)
(***************************************************************************)
NewFrame(e, path, w) ==
    [expr |-> e, path |-> path, pc |-> "enter", target |-> Nil,
     new_args |-> <<>>, condition |-> Nil, at_entry |-> w]

Top == stack[Len(stack)]
Below == SubSeq(stack, 1, Len(stack) - 1)
SetTop(f) == [stack EXCEPT ![Len(stack)] = f]

\* The interpreter's own environment: Interpreter { env: Env::new() }.
InterpreterEnv == handles[1]

EvalEvent(path, e) == <<"eval", path, e>>
ApplyEvent(path, target, new_args, outcome) == <<"apply", path, target, new_args, outcome>>
BranchEvent(path, condition, outcome) == <<"branch", path, condition, outcome>>

\* self.eval(e): a new frame, or the host stack is exhausted and the process aborts.
CallEval(callers, e, path, events) ==
    IF Len(callers) < MaxStackDepth
    THEN /\ stack' = Append(callers, NewFrame(e, path, writes'))
         /\ status' = "running"
         /\ result' = NoResult
         /\ log' = log \o events \o <<EvalEvent(path, e)>>
    ELSE /\ stack' = callers
         /\ status' = "overflow"
         /\ result' = NoResult
         /\ log' = log \o events

\* The caller's frame once the eval it called has returned Ok(v).
Resume(f, v) ==
    CASE f.pc = "target" -> [f EXCEPT !.target = v, !.pc = "args"]
      [] f.pc = "args" -> [f EXCEPT !.new_args = Append(f.new_args, v)]
      [] f.pc = "cond" -> [f EXCEPT !.condition = v, !.pc = "branch"]

\* A return where the caller of a failed eval goes on with nil in its place.
ReturnFromTopWithFallback(r, events) ==
    /\ log' = log \o events
    /\ IF Len(stack) = 1
       THEN /\ stack' = <<>>
            /\ status' = "done"
            /\ result' = r
       ELSE /\ stack' = [Below EXCEPT ![Len(Below)] =
                            Resume(Below[Len(Below)], IF r[1] = "Err" THEN Nil ELSE r[2])]
            /\ status' = "running"
            /\ result' = NoResult

\* The top call returns r.  Every caller waits at a `?`: an Err goes up through
\* all of them unchanged; an Ok value goes to the caller alone.
ReturnFromTop(r, events) ==
    /\ log' = log \o events
    /\ IF Len(stack) = 1 \/ r[1] = "Err"
       THEN /\ stack' = <<>>
            /\ status' = "done"
            /\ result' = r
       ELSE /\ stack' = [Below EXCEPT ![Len(Below)] = Resume(Below[Len(Below)], r[2])]
            /\ status' = "running"
            /\ result' = NoResult

\* panic!(...): the process ends.
PanicFromTop(p, events) ==
    /\ log' = log \o events
    /\ stack' = stack
    /\ status' = "panicked"
    /\ result' = p

NoCall == [expr |-> Nil, scopes |-> <<>>]
NoGet == [handle |-> 0, key |-> "", value |-> Nil]
NoSet == [handle |-> 0, value |-> Nil]

\* The dev profile of cargo (overflow-checks on).  It is read only when an i64
\* addition leaves the range, which is the case in SpecPlus alone; there the
\* build is either profile.
DevProfile == overflow_checks = TRUE

\* Interpreter::new(), with nothing evaluated yet.
\* The threads; a thread calls into the environment or loads source text.
Workers == 1..MaxLoaders

IdleWorker == [pc |-> "idle", handle |-> 0, key |-> "", value |-> Nil, at |-> 0]

\* Mutex::new(Scope(..)): no scope is locked.
NoLocks == <<>>

InterpreterInit ==
    /\ scopes = <<EmptyScope>>
    /\ handles = << <<1>> >>
    /\ status = "idle"
    /\ stack = <<>>
    /\ result = NoResult
    /\ log = <<>>
    /\ writes = 0
    /\ call = NoCall
    /\ observed = NoGet
    /\ lastSet = [k \in Keys |-> NoSet]
    /\ scopeLock = NoLocks
    /\ worker = [t \in Workers |-> IdleWorker]

(***************************************************************************)
(* code.rs: Code and CODE_ATLAS.  A text is a sequence of characters.      *)
(***************************************************************************)
Chars == <<" ", "1", "e", "(", ")", "_", ".", "-">>
CharSet == {Chars[i] : i \in 1..Len(Chars)}

\* The further characters of the lines typed at the prompt.
LineChars == <<"\n", "+", "x", "i", "t", "s", "g", "f">>
\* The further characters of the words of the texts a session evaluates.
WordChars == <<"c", "d", "r", "o">>
Alphabet == Chars \o LineChars \o WordChars
AlphabetSet == {Alphabet[i] : i \in 1..Len(Alphabet)}
CharCode(c) == CHOOSE i \in 1..Len(Alphabet) : Alphabet[i] = c

\* Sha256::digest(text.as_bytes()): the codes of the characters, which differ
\* for different texts (the digest is taken to be free of collisions).
Sha256(text) == [i \in 1..Len(text) |-> CharCode(text[i])]

\* Path::new(p).file_name(): a path is a sequence of components.
FileName(path) == path[Len(path)]

\* Option<String>: None, or Some(path)
NewCode(sha, text, file_path) ==
    [sha |-> sha,
     name |-> IF file_path = None THEN None ELSE Some(FileName(file_path[2])),
     file_path |-> file_path,
     text |-> text]

NoHandle == 0
NoParse == <<"NoParse">>
NoRepl == [pc |-> "off", printed |-> NoResult, read |-> 0]
IdleLoader ==
    [pc |-> "idle", text |-> <<>>, file_path |-> None, sha |-> <<>>, ret |-> NoHandle]

Loaders == 1..MaxLoaders

\* lazy_static! CODE_ATLAS: an empty map, behind a free Mutex.
AtlasInit ==
    /\ atlas = <<>>
    /\ buffers = <<>>
    /\ atlasLock = 0
    /\ loader = [t \in Loaders |-> IdleLoader]
    /\ loaded = {}

\* No source has been handed to the parser.
NoSource ==
    /\ source = <<>>
    /\ parsed = NoParse
    /\ repl = NoRepl

\* CODE_ATLAS.lock(): the Mutex is taken when no thread holds it.
CanLockAlways(holder) == TRUE

CanLock(holder) == holder = 0

\* atlas.entry(sha): occupied or vacant.
NeverOccupied(at, sha) == FALSE

Occupied(at, sha) == sha \in DOMAIN at

\* The texts and the paths of the loads.
Texts == {<<"1">>, <<"e">>}
Paths == {<<"lib", "a.ss">>}

\* Code::from_snippet(src): Self::intern(src.to_owned(), None)
FromSnippet(t, src) ==
    /\ loader[t].pc = "idle"
    /\ loader' = [loader EXCEPT ![t] =
                     [IdleLoader EXCEPT !.pc = "intern", !.text = src]]
    /\ UNCHANGED <<atlas, buffers, atlasLock, loaded>>
    /\ UNCHANGED <<scopes, handles, evalVars, envVars, parseVars, overflow_checks>>

\* Code::from_file(path), the file holding text: read it, then
\* Self::intern(buf, Some(path)).
FromFile(t, path, text) ==
    /\ loader[t].pc = "idle"
    /\ loader' = [loader EXCEPT ![t] =
                     [IdleLoader EXCEPT !.pc = "intern", !.text = text,
                                        !.file_path = Some(path)]]
    /\ UNCHANGED <<atlas, buffers, atlasLock, loaded>>
    /\ UNCHANGED <<scopes, handles, evalVars, envVars, parseVars, overflow_checks>>

\* Code::from_file(path), File::open or read_to_string failing: Err by `?`.
FromFileFails(t, path) ==
    /\ loader[t].pc = "idle"
    /\ loader' = [loader EXCEPT ![t] =
                     [IdleLoader EXCEPT !.pc = "failed", !.file_path = Some(path)]]
    /\ UNCHANGED <<atlas, buffers, atlasLock, loaded>>
    /\ UNCHANGED <<scopes, handles, evalVars, envVars, parseVars, overflow_checks>>

\* The caller of a failed from_file has the error.
Failed(t) ==
    /\ loader[t].pc = "failed"
    /\ loader' = [loader EXCEPT ![t] = IdleLoader]
    /\ UNCHANGED <<atlas, buffers, atlasLock, loaded>>
    /\ UNCHANGED <<scopes, handles, evalVars, envVars, parseVars, overflow_checks>>

\* let sha = Bytes::from(Sha256::digest(text.as_bytes()).to_vec());
Digest(t) ==
    /\ loader[t].pc = "intern"
    /\ loader' = [loader EXCEPT ![t].sha = Sha256(loader[t].text), ![t].pc = "lock"]
    /\ UNCHANGED <<atlas, buffers, atlasLock, loaded>>
    /\ UNCHANGED <<scopes, handles, evalVars, envVars, parseVars, overflow_checks>>

\* let mut atlas = CODE_ATLAS.lock().unwrap();
Lock(t) ==
    /\ loader[t].pc = "lock"
    /\ CanLock(atlasLock)
    /\ atlasLock' = t
    /\ loader' = [loader EXCEPT ![t].pc = "entry"]
    /\ UNCHANGED <<atlas, buffers, loaded>>
    /\ UNCHANGED <<scopes, handles, evalVars, envVars, parseVars, overflow_checks>>

\* atlas.entry(sha.clone())
Entry(t) ==
    /\ loader[t].pc = "entry"
    /\ loader' = [loader EXCEPT ![t].pc =
                     IF Occupied(atlas, loader[t].sha) THEN "clone" ELSE "insert"]
    /\ UNCHANGED <<atlas, buffers, atlasLock, loaded>>
    /\ UNCHANGED <<scopes, handles, evalVars, envVars, parseVars, overflow_checks>>

\* .or_insert_with(|| Arc::new(Code { ... })), the entry being vacant
OrInsertWith(t) ==
    /\ loader[t].pc = "insert"
    /\ buffers' = Append(buffers,
                         NewCode(loader[t].sha, loader[t].text, loader[t].file_path))
    /\ atlas' = [d \in DOMAIN atlas \cup {loader[t].sha} |->
                    IF d = loader[t].sha THEN Len(buffers) + 1 ELSE atlas[d]]
    /\ loader' = [loader EXCEPT ![t].pc = "clone"]
    /\ UNCHANGED <<atlasLock, loaded>>
    /\ UNCHANGED <<scopes, handles, evalVars, envVars, parseVars, overflow_checks>>

\* .clone(), and the guard is dropped as intern returns the Arc
CloneAndUnlock(t) ==
    /\ loader[t].pc = "clone"
    /\ atlasLock' = 0
    /\ loader' = [loader EXCEPT ![t].pc = "idle", ![t].ret = atlas[loader[t].sha]]
    /\ loaded' = loaded \cup
                    {<<loader[t].text, loader[t].file_path, atlas[loader[t].sha]>>}
    /\ UNCHANGED <<atlas, buffers>>
    /\ UNCHANGED <<scopes, handles, evalVars, envVars, parseVars, overflow_checks>>

InitCode ==
    /\ DevProfile
    /\ InterpreterInit
    /\ AtlasInit
    /\ NoSource

NextCode ==
    \/ \E t \in Loaders, src \in Texts : FromSnippet(t, src)
    \/ \E t \in Loaders, path \in Paths, text \in Texts : FromFile(t, path, text)
    \/ \E t \in Loaders, path \in Paths : FromFileFails(t, path)
    \/ \E t \in Loaders : Failed(t)
    \/ \E t \in Loaders : Digest(t)
    \/ \E t \in Loaders : Lock(t)
    \/ \E t \in Loaders : Entry(t)
    \/ \E t \in Loaders : OrInsertWith(t)
    \/ \E t \in Loaders : CloneAndUnlock(t)

SpecCode == InitCode /\ [][NextCode]_vars

(***************************************************************************)
(* parser.rs.  A ParserSpan is a text and an offset into it: the fragment  *)
(* is the text from the offset on.  A parser returns <<"Ok", rest, out>>,  *)
(* rest being the offset of the remaining input, or <<"Error", e>> or      *)
(* <<"Failure", e>> (nom::Err::Error, nom::Err::Failure).  The parsers of  *)
(* nom are modelled as nom 8 defines them.                                 *)
(***************************************************************************)
MaxSourceLen == 5

POk(rest, out) == <<"Ok", rest, out>>
PError(e) == <<"Error", e>>
PFailure(e) == <<"Failure", e>>

\* CodeSpan::new(code, start, end)
CodeSpan(code, start, end) == [code |-> code, start |-> start, end |-> end]

\* impl From<ParserSpan> for CodeSpan: from the offset to the end of the input
CodeSpanFrom(code, s, o) == CodeSpan(code, o, Len(s))

\* Spanned { value, span }
Spanned(value, span) == [value |-> value, span |-> span]

\* ParseError::Nom { kind, span }, by from_error_kind
Nom(kind, code, s, o) == [error |-> "Nom", kind |-> kind, span |-> CodeSpanFrom(code, s, o)]

\* ParseError::BadInt { value, msg, span }, the span set by from_external_error
BadInt(value, code, s, o) ==
    [error |-> "BadInt", value |-> value, span |-> CodeSpanFrom(code, s, o)]

\* The character at an offset, "" at the end of the input.
At(s, o) == IF o < Len(s) THEN s[o + 1] ELSE ""

Whitespace == {" ", "\t", "\r", "\n"}
Digits == <<"0", "1", "2", "3", "4", "5", "6", "7", "8", "9">>
DigitSet == {Digits[i] : i \in 1..Len(Digits)}
DigitValue(c) == (CHOOSE i \in 1..Len(Digits) : Digits[i] = c) - 1
Letters ==
    {"a", "b", "c", "d", "e", "f", "g", "h", "i", "j", "k", "l", "m",
     "n", "o", "p", "q", "r", "s", "t", "u", "v", "w", "x", "y", "z",
     "A", "B", "C", "D", "E", "F", "G", "H", "I", "J", "K", "L", "M",
     "N", "O", "P", "Q", "R", "S", "T", "U", "V", "W", "X", "Y", "Z"}
Signs == {"+", "-"}

\* c.is_ascii_alphabetic() || c == '_' || c == '+' || ... || c == '$'
IsSymbolChar(c) ==
    c \in Letters \cup {"_", "+", "-", "*", "=", ">", "<", "!", "?", "/", "$"}

\* The offset after the longest run of characters of a set.
RECURSIVE TakeWhile(_, _, _)
TakeWhile(s, o, set) ==
    IF At(s, o) \in set THEN TakeWhile(s, o + 1, set) ELSE o

\* multispace0: never fails
multispace0(s, o) == TakeWhile(s, o, Whitespace)

\* The text from an offset to an offset, and a text as a String.
Fragment(s, from, to) == SubSeq(s, from + 1, to)

RECURSIVE to_string(_)
to_string(text) == IF text = <<>> THEN "" ELSE text[1] \o to_string(Tail(text))

\* nom::number::complete::recognize_float:
\*   recognize((opt(sign), alt(((digit1, opt(pair(char('.'), opt(digit1)))),
\*                              (char('.'), digit1))),
\*              opt((alt((char('e'), char('E'))), opt(sign), cut(digit1)))))
recognize_float(code, s, o) ==
    LET a == IF At(s, o) \in Signs THEN o + 1 ELSE o
        d == TakeWhile(s, a, DigitSet)
        f == IF At(s, d) = "." THEN TakeWhile(s, d + 1, DigitSet) ELSE d
        p == TakeWhile(s, a + 1, DigitSet)
        x == IF At(s, f + 1) \in Signs THEN f + 2 ELSE f + 1
        y == IF At(s, p + 1) \in Signs THEN p + 2 ELSE p + 1
        Exponent(m, n) ==
            IF At(s, m) \notin {"e", "E"} THEN POk(m, Fragment(s, o, m))
            ELSE IF TakeWhile(s, n, DigitSet) > n
                 THEN POk(TakeWhile(s, n, DigitSet),
                          Fragment(s, o, TakeWhile(s, n, DigitSet)))
                 ELSE PFailure(Nom("Digit", code, s, n))
    IN  IF d > a THEN Exponent(f, x)
        ELSE IF At(s, a) = "." /\ p > a + 1 THEN Exponent(p, y)
        ELSE PError(Nom("Digit", code, s, a))

\* The value of a run of digits.
RECURSIVE DigitsValue(_)
DigitsValue(text) ==
    IF text = <<>> THEN 0
    ELSE 10 * DigitsValue(SubSeq(text, 1, Len(text) - 1)) + DigitValue(text[Len(text)])

\* str::parse::<i64>: an optional sign and digits.  A text of at most 18
\* digits is within i64; the texts of the model are shorter.
ParseI64(text) ==
    LET a == IF At(text, 0) \in Signs THEN 1 ELSE 0
        d == TakeWhile(text, a, DigitSet)
    IN  IF d = a \/ d < Len(text) \/ d - a > 18 THEN Err("invalid i64")
        ELSE Ok((IF At(text, 0) = "-" THEN -1 ELSE 1) * DigitsValue(Fragment(text, a, d)))

\* str::parse::<f64> of a text recognize_float has recognized: sign, digits,
\* fraction, exponent.  (The sign of a zero is not kept.)
ParseF64(text) ==
    LET a == IF At(text, 0) \in Signs THEN 1 ELSE 0
        d == TakeWhile(text, a, DigitSet)
        f == IF At(text, d) = "." THEN TakeWhile(text, d + 1, DigitSet) ELSE d
        fraction == IF f > d THEN Fragment(text, d + 1, f) ELSE <<>>
        x == IF At(text, f + 1) \in Signs THEN f + 2 ELSE f + 1
        exponent ==
            IF At(text, f) \in {"e", "E"}
            THEN (IF At(text, f + 1) = "-" THEN -1 ELSE 1)
                 * DigitsValue(Fragment(text, x, Len(text)))
            ELSE 0
        mantissa == DigitsValue(Fragment(text, a, d) \o fraction)
    IN  Ok(F64((IF At(text, 0) = "-" THEN -1 ELSE 1) * mantissa,
               exponent - Len(fraction)))

\* parse_number: map_res(recognize_float, |span| ...)
parse_number(code, s, o) ==
    LET r == recognize_float(code, s, o)
        fragment == r[3]
        cleaned == SelectSeq(fragment, LAMBDA c : c # "_")
        contains(c) == \E i \in 1..Len(cleaned) : cleaned[i] = c
        value == IF contains(".") \/ contains("e") \/ contains("E")
                 THEN ParseF64(cleaned) ELSE ParseI64(cleaned)
    IN  IF r[1] # "Ok" THEN r
        ELSE IF value[1] = "Err" THEN PError(BadInt(to_string(fragment), code, s, o))
        ELSE IF contains(".") \/ contains("e") \/ contains("E")
             THEN POk(r[2], Float(value[2]))
             ELSE POk(r[2], Integer(value[2]))

\* map_res(take_while1(...), |span| Ok(Expr::Symbol(Symbol(...))))
parse_symbol(code, s, o) ==
    LET rest == TakeWhile(s, o, {c \in AlphabetSet : IsSymbolChar(c)})
    IN  IF rest > o THEN POk(rest, Symbol(to_string(Fragment(s, o, rest))))
        ELSE PError(Nom("TakeWhile1", code, s, o))

\* A wrapper whose spans all begin at the start of the buffer.
spannedFromStart(code, o, r) ==
    IF r[1] = "Ok" THEN POk(r[2], Spanned(r[3], CodeSpan(code, 0, r[2]))) ELSE r

\* spanned(inner): the output with the span from the input's offset to the rest's
spanned(code, o, r) ==
    IF r[1] = "Ok" THEN POk(r[2], Spanned(r[3], CodeSpan(code, o, r[2]))) ELSE r

RECURSIVE parse_expr(_, _, _)
RECURSIVE separated_list1(_, _, _, _)
RECURSIVE parse_combination_inner(_, _, _)
RECURSIVE parse_combination(_, _, _)

\* alt((spanned(parse_number), spanned(symbol), spanned(parse_combination))):
\* the first alternative that does not return Err::Error decides; when all
\* return Err::Error the error is the first one (ParseError::or keeps self,
\* ParseError::append keeps the other).
parse_expr(code, s, o) ==
    LET number == spanned(code, o, parse_number(code, s, o))
        symbol == spanned(code, o, parse_symbol(code, s, o))
        combination == spanned(code, o, parse_combination(code, s, o))
    IN  IF number[1] # "Error" THEN number
        ELSE IF symbol[1] # "Error" THEN symbol
        ELSE IF combination[1] # "Error" THEN combination
        ELSE number

\* separated_list1(multispace0, parse_expr) after its first element: res is
\* the elements so far and i the offset after the last of them.  At an
\* Err::Error of the element the list ends at i, before the separator.
separated_list1(code, s, i, res) ==
    LET i1 == multispace0(s, i)
        element == parse_expr(code, s, i1)
    IN  IF element[1] = "Error" THEN POk(i, res)
        ELSE IF element[1] = "Failure" THEN element
        ELSE IF element[2] = i THEN PError(Nom("SeparatedList", code, s, i))
        ELSE separated_list1(code, s, element[2], Append(res, element[3]))

\* separated_pair(parse_expr, multispace0, separated_list1(multispace0, parse_expr))
\*     .map(|(op, args)| Expr::Combination(op.value, args values))
parse_combination_inner(code, s, o) ==
    LET op == parse_expr(code, s, o)
        first == parse_expr(code, s, multispace0(s, op[2]))
        args == separated_list1(code, s, first[2], <<first[3]>>)
    IN  IF op[1] # "Ok" THEN op
        ELSE IF first[1] # "Ok" THEN first
        ELSE IF args[1] # "Ok" THEN args
        ELSE POk(args[2],
                 Combination(op[3].value, [i \in 1..Len(args[3]) |-> args[3][i].value]))

\* delimited(tag("("), parse_combination_inner, tag(")"))
parse_combination(code, s, o) ==
    LET inner == parse_combination_inner(code, s, o + 1)
    IN  IF At(s, o) # "(" THEN PError(Nom("Tag", code, s, o))
        ELSE IF inner[1] # "Ok" THEN inner
        ELSE IF At(s, inner[2]) # ")" THEN PError(Nom("Tag", code, s, inner[2]))
        ELSE POk(inner[2] + 1, inner[3])

\* complete_expr(code): delimited(multispace0, parse_expr, multispace0) on the
\* span of the whole text; the remaining input is dropped (let (_, spanned)),
\* Err::Error(p) and Err::Failure(p) both become Err(p).
complete_expr(code, s) ==
    LET r == parse_expr(code, s, multispace0(s, 0))
    IN  IF r[1] = "Ok" THEN Ok(r[3]) ELSE Err(r[2])

\* Code::intern on an atlas no other thread is using: the atlas and the heap
\* after it, and the Arc it returns.
Interned(at, bufs, text, file_path) ==
    IF Occupied(at, Sha256(text))
    THEN [atlas |-> at, buffers |-> bufs, code |-> at[Sha256(text)]]
    ELSE [atlas |-> [d \in DOMAIN at \cup {Sha256(text)} |->
                        IF d = Sha256(text) THEN Len(bufs) + 1 ELSE at[d]],
          buffers |-> Append(bufs, NewCode(Sha256(text), text, file_path)),
          code |-> Len(bufs) + 1]

\* The sources: the texts of at most MaxSourceLen characters.
Sources == UNION {[1..n -> CharSet] : n \in 0..MaxSourceLen}

\* parse_snippet and parse_file: intern the text (with its path, for a file),
\* then complete_expr(&code).
ParseWith(file_path) ==
    /\ parsed = NoParse
    /\ LET interned == Interned(atlas, buffers, source, file_path)
       IN  /\ atlas' = interned.atlas
           /\ buffers' = interned.buffers
           /\ parsed' = complete_expr(interned.code, source)
    /\ UNCHANGED <<scopes, handles, evalVars, envVars, atlasLock, loader, loaded, source, repl, overflow_checks>>

\* parse_snippet(src): let code = Code::from_snippet(src); complete_expr(&code)
ParseSnippet == ParseWith(None)

\* parse_file(path), the file holding source: Code::from_file(path) interns
\* the text with its path, then complete_expr(&code).
ParseFile(path) == ParseWith(Some(path))

\* parse_file(path), File::open or read_to_string failing: from_file returns
\* the io error, and map_err builds the diagnostic
\*     ParseError::Nom { kind: Fail, span: CodeSpan::new(Code::from_snippet(""), 0, 0) }
\* interning the empty snippet for its span.
ParseFileFails(path) ==
    /\ parsed = NoParse
    /\ LET interned == Interned(atlas, buffers, <<>>, None)
       IN  /\ atlas' = interned.atlas
           /\ buffers' = interned.buffers
           /\ parsed' = Err([error |-> "Nom", kind |-> "Fail",
                             span |-> CodeSpan(interned.code, 0, 0)])
    /\ UNCHANGED <<scopes, handles, evalVars, envVars, atlasLock, loader, loaded, source, repl, overflow_checks>>

InitParse ==
    /\ DevProfile
    /\ InterpreterInit
    /\ AtlasInit
    /\ source \in Sources
    /\ parsed = NoParse
    /\ repl = NoRepl

NextParse ==
    \/ ParseSnippet
    \/ \E path \in Paths : ParseFile(path)
    \/ \E path \in Paths : ParseFileFails(path)

SpecParse == InitParse /\ [][NextParse]_vars

(***************************************************************************)
(* The expressions the caller evaluates.                                   *)
(***************************************************************************)
SetX(v) == Combination(Symbol("set"), <<Symbol("x"), v>>)
GetX == Combination(Symbol("get"), <<Symbol("x")>>)
EmptyFoo == Combination(Symbol("foo"), <<>>)

\* Invocations of every primitive but +, and of the unknown operator foo.
Operators == {Symbol(p) : p \in PrimitiveNames \ {"+"}} \cup {Symbol("foo")}
Operands == {Symbol("x"), Integer(1), Boolean(TRUE), EmptyFoo}
\* Arguments with side effects, under if and under foo.
EffectOperators == {Symbol("if"), Symbol("foo")}
EffectOperands == {Boolean(TRUE), GetX, SetX(Integer(1)), SetX(Boolean(FALSE))}
\* Arguments of +.
Addends == {Integer(1), Float(F64(25, -1)), Symbol("x"), GetX}

\* Operators that are no symbols, and their arguments.
OtherOperators == {Integer(1), EmptyFoo}
OtherOperands == {Integer(2), GetX}

\* (+ x) fails, x being a symbol; it fails one level deeper in (foo 1 (+ x)).
\* Combinations with a failing operator or failing arguments beside a set.
BadPlus == Combination(Symbol("+"), <<Symbol("x")>>)
DeepBadPlus == Combination(Symbol("foo"), <<Integer(1), BadPlus>>)
FailingOperators == {Symbol("foo"), Symbol("if"), BadPlus}
FailingOperands == {BadPlus, DeepBadPlus, SetX(Integer(1))}

\* car, cdr and cons of lists of no, one, two and three elements.
ListOperators == {Symbol("car"), Symbol("cdr"), Symbol("cons")}
Lists ==
    {Combination(Symbol("foo"), args) :
        args \in {<<>>, <<Integer(1)>>, <<Integer(1), Symbol("x")>>,
                  <<Symbol("x"), Integer(1), Boolean(TRUE)>>}}

ArgLists(pool) == UNION {[1..n -> pool] : n \in 0..MaxArgs}

\* (set x (cdr (foo if (cdr (foo get x)) 1 2))): binds x to the combination
\* (if (get x) 1 2), which cdr builds out of data.
QuotedGetX ==
    Combination(Symbol("cdr"),
        <<Combination(Symbol("foo"), <<Symbol("get"), Symbol("x")>>)>>)
QuotedIf ==
    Combination(Symbol("cdr"),
        <<Combination(Symbol("foo"),
            <<Symbol("if"), QuotedGetX, Integer(1), Integer(2)>>)>>)
SetXQuotedIf == SetX(QuotedIf)

Programs ==
    {Combination(op, args) : op \in Operators, args \in ArgLists(Operands)}
    \cup {Combination(op, args) : op \in EffectOperators, args \in ArgLists(EffectOperands)}
    \cup {Combination(Symbol("+"), args) : args \in ArgLists(Addends)}
    \cup {SetXQuotedIf}
    \cup {Combination(op, args) : op \in OtherOperators, args \in ArgLists(OtherOperands)}
    \cup {Combination(op, args) : op \in FailingOperators, args \in ArgLists(FailingOperands)}
    \cup {Combination(op, <<list>>) : op \in ListOperators, list \in Lists}

(***************************************************************************)
(* The evaluator's actions.                                                *)
(***************************************************************************)
\* The argument the loop `for arg in args` takes next: the one after those
\* already pushed to new_args.
NextArgRightToLeft(f) == Len(f.expr[3]) - Len(f.new_args)

NextArg(f) == Len(f.new_args) + 1

InitEval ==
    /\ DevProfile
    /\ InterpreterInit
    /\ AtlasInit
    /\ NoSource

\* The caller calls interpreter.eval(&expr).
Evaluate(e) ==
    /\ status = "idle"
    /\ call' = [expr |-> e, scopes |-> scopes]
    /\ scopes' = scopes
    /\ writes' = 0
    /\ CallEval(<<>>, e, <<>>, <<>>)
    /\ UNCHANGED <<handles, envVars, codeVars, parseVars, overflow_checks>>

\* Expr::Nil | Comment | Boolean | Symbol | ... => Ok(expr.clone())
EvalAtom ==
    /\ status = "running"
    /\ Top.pc = "enter"
    /\ ~IsCombination(Top.expr)
    /\ ReturnFromTop(Ok(Top.expr), <<>>)
    /\ UNCHANGED <<scopes, handles, writes, call, envVars, codeVars, parseVars, overflow_checks>>

\* Expr::Combination(target, args) => let target = self.eval(target)?;
EvalTarget ==
    /\ status = "running"
    /\ Top.pc = "enter"
    /\ IsCombination(Top.expr)
    /\ UNCHANGED <<scopes, writes>>
    /\ CallEval(SetTop([Top EXCEPT !.pc = "target"]), Top.expr[2],
                Append(Top.path, 0), <<>>)
    /\ UNCHANGED <<handles, call, envVars, codeVars, parseVars, overflow_checks>>

\* for arg in args { let arg = self.eval(arg)?; new_args.push(arg); }
EvalArg ==
    /\ status = "running"
    /\ Top.pc = "args"
    /\ Len(Top.new_args) < Len(Top.expr[3])
    /\ UNCHANGED <<scopes, writes>>
    /\ CallEval(stack, Top.expr[3][NextArg(Top)], Append(Top.path, NextArg(Top)), <<>>)
    /\ UNCHANGED <<handles, call, envVars, codeVars, parseVars, overflow_checks>>

\* match target.clone() { ... }: the arm of the evaluated target acts.
Apply ==
    /\ status = "running"
    /\ Top.pc = "args"
    /\ Len(Top.new_args) = Len(Top.expr[3])
    /\ LET arm == Dispatch(Top.target, Top.new_args, scopes, InterpreterEnv)
           event == ApplyEvent(Top.path, Top.target, Top.new_args, arm.value)
       IN  /\ scopes' = arm.scopes
           /\ writes' = IF arm.scopes = scopes THEN writes ELSE writes + 1
           /\ CASE arm.kind = "return" -> ReturnFromTop(arm.value, <<event>>)
                [] arm.kind = "panic" -> PanicFromTop(arm.value, <<event>>)
                [] arm.kind = "eval_cond" ->
                     CallEval(SetTop([Top EXCEPT !.pc = "cond"]), Top.new_args[1],
                              Append(Top.path, Len(Top.new_args) + 1), <<event>>)
    /\ UNCHANGED <<handles, call, envVars, codeVars, parseVars, overflow_checks>>

\* if let Expr::Boolean(true) = condition { ... } else if ... else { panic!(...) }
Branch ==
    /\ status = "running"
    /\ Top.pc = "branch"
    /\ LET r == IfBranch(Top.new_args, Top.condition)
           event == BranchEvent(Top.path, Top.condition, r)
       IN  IF r[1] = "Panic"
           THEN PanicFromTop(r, <<event>>)
           ELSE ReturnFromTop(r, <<event>>)
    /\ UNCHANGED <<scopes, handles, writes, call, envVars, codeVars, parseVars, overflow_checks>>

\* The caller has the result and is ready to call eval again.
ReturnToCaller ==
    /\ status = "done"
    /\ status' = "idle"
    /\ stack' = <<>>
    /\ result' = NoResult
    /\ log' = <<>>
    /\ writes' = 0
    /\ call' = NoCall
    /\ UNCHANGED <<scopes, handles, envVars, codeVars, parseVars, overflow_checks>>

NextEval ==
    \/ status = "idle" /\ \E e \in Programs : Evaluate(e)
    \/ EvalAtom
    \/ EvalTarget
    \/ EvalArg
    \/ Apply
    \/ Branch
    \/ ReturnToCaller

SpecEval == InitEval /\ [][NextEval]_vars

(***************************************************************************)
(* The + arm on integers of the whole i64 range: the caller evaluates      *)
(* (+ a b ...) with arguments at zero and at both ends of the range, in a  *)
(* build with overflow checks or without.                                  *)
(***************************************************************************)
I64Operands ==
    {Integer(0), Integer(1), Integer(-1), Integer64(I64Max), Integer64(I64Min)}

PlusPrograms == {Combination(Symbol("+"), args) : args \in ArgLists(I64Operands)}

InitPlus ==
    /\ InterpreterInit
    /\ AtlasInit
    /\ NoSource
    /\ overflow_checks \in BOOLEAN

NextPlus ==
    \/ status = "idle" /\ \E e \in PlusPrograms : Evaluate(e)
    \/ EvalAtom
    \/ EvalTarget
    \/ EvalArg
    \/ Apply
    \/ ReturnToCaller

SpecPlus == InitPlus /\ [][NextPlus]_vars

(***************************************************************************)
(* A session: a caller that starts with a fresh interpreter and evaluates, *)
(* one after another, expressions that the parser made from texts.  The    *)
(* texts are combinations written out from words; what is evaluated is     *)
(* what complete_expr returns for them.                                    *)
(***************************************************************************)
RECURSIVE Spaced(_)
Spaced(texts) ==
    IF texts = <<>> THEN <<>> ELSE <<" ">> \o texts[1] \o Spaced(Tail(texts))

\* ( op arg ... ) as a text
ListText(op, args) == <<"(">> \o op \o Spaced(args) \o <<")">>

\* (cdr (foo if 1 1 1)) evaluates to the combination (if 1 1 1), as data, and
\* (cdr (foo + x)) to the combination (+ x).
OperandTexts ==
    {<<"1">>,
     <<"x">>,
     ListText(<<"g", "e", "t">>, << <<"x">> >>),
     ListText(<<"c", "d", "r">>,
              << ListText(<<"f", "o", "o">>,
                          << <<"i", "f">>, <<"1">>, <<"1">>, <<"1">> >>) >>),
     ListText(<<"c", "d", "r">>,
              << ListText(<<"f", "o", "o">>, << <<"+">>, <<"x">> >>) >>)}

OperatorTexts == {<<"i", "f">>, <<"s", "e", "t">>, <<"f", "o", "o">>}

SessionTexts ==
    {ListText(op, args) : op \in OperatorTexts, args \in ArgLists(OperandTexts)}

\* Expr::from_str(text), for the texts that parse
ParseResults == {complete_expr(0, text) : text \in SessionTexts}
ParsedPrograms == {r[2].value : r \in {p \in ParseResults : p[1] = "Ok"}}

InitSession ==
    /\ DevProfile
    /\ InterpreterInit
    /\ AtlasInit
    /\ NoSource

NextSession ==
    \/ status = "idle" /\ \E e \in ParsedPrograms : Evaluate(e)
    \/ EvalAtom
    \/ EvalTarget
    \/ EvalArg
    \/ Apply
    \/ Branch
    \/ ReturnToCaller

SpecSession == InitSession /\ [][NextSession]_vars

(***************************************************************************)
(* main.rs: repl.  Standard input is any sequence of lines; a line is read *)
(* with its newline, and at the end of input the read is empty.  Standard  *)
(* output is taken to be writable.                                         *)
(*   pc = "prompt"    at the top of the loop, input empty                  *)
(*   pc = "line"      read_line has returned Ok                            *)
(*   pc = "parsed"    Expr::from_str has returned Ok; eval runs or has run *)
(*   pc = "returned"  the loop has been left by break                      *)
(*   pc = "aborted"   expect has panicked                                  *)
(* and read counts the reads made of standard input.                       *)
(***************************************************************************)
\* How many lines standard input holds at most.
MaxLines == 2

Lines ==
    {<<>>,
     <<"e", "x", "i", "t", "\n">>,
     <<" ", "e", "x", "i", "t", " ", "\n">>,
     <<"1", "\n">>,
     <<")", "\n">>,
     <<"(", "+", " ", "e", ")", "\n">>,
     <<"(", "s", "e", "t", " ", "x", " ", "1", ")", "\n">>,
     <<"(", "g", "e", "t", " ", "x", ")", "\n">>,
     <<"(", "i", "f", " ", "1", " ", "1", " ", "1", ")", "\n">>}

\* str::trim
RECURSIVE TrimStart(_)
TrimStart(text) ==
    IF text # <<>> /\ text[1] \in Whitespace THEN TrimStart(Tail(text)) ELSE text

RECURSIVE TrimEnd(_)
TrimEnd(text) ==
    IF text # <<>> /\ text[Len(text)] \in Whitespace
    THEN TrimEnd(SubSeq(text, 1, Len(text) - 1))
    ELSE text

Trim(text) == TrimEnd(TrimStart(text))

\* print!("> "); flush; std::io::stdin().read_line(&mut input) returning Ok
ReadLine(line) ==
    /\ repl.pc = "prompt"
    /\ repl.read < MaxLines
    /\ source' = source \o line
    /\ repl' = [repl EXCEPT !.pc = "line", !.read = @ + 1]
    /\ UNCHANGED <<scopes, handles, evalVars, envVars, codeVars, parsed, overflow_checks>>

\* if std::io::stdin().read_line(&mut input).is_err() { break; }
ReadError ==
    /\ repl.pc = "prompt"
    /\ repl' = [repl EXCEPT !.pc = "returned"]
    /\ UNCHANGED <<scopes, handles, evalVars, envVars, codeVars, source, parsed, overflow_checks>>

\* if input.trim() == "exit" { break; }
Exit ==
    /\ repl.pc = "line"
    /\ Trim(source) = <<"e", "x", "i", "t">>
    /\ repl' = [repl EXCEPT !.pc = "returned"]
    /\ UNCHANGED <<scopes, handles, evalVars, envVars, codeVars, source, parsed, overflow_checks>>

\* let expr = Expr::from_str(&input).expect("Failed to parse input");
\* from_str is parse_snippet(s)?.value
ParseLine ==
    /\ repl.pc = "line"
    /\ Trim(source) # <<"e", "x", "i", "t">>
    /\ LET interned == Interned(atlas, buffers, source, None)
       IN  /\ atlas' = interned.atlas
           /\ buffers' = interned.buffers
           /\ parsed' = complete_expr(interned.code, source)
    /\ repl' = [repl EXCEPT !.pc = IF parsed'[1] = "Ok" THEN "parsed" ELSE "aborted"]
    /\ UNCHANGED <<scopes, handles, evalVars, envVars, atlasLock, loader, loaded, source, overflow_checks>>

\* match interpreter.eval(&expr) { ... }: the call
EvalLine ==
    /\ repl.pc = "parsed"
    /\ Evaluate(parsed[2].value)

\* Ok(result) => println!, Err(e) => eprintln!; input.clear(); and loop
PrintLine ==
    /\ repl.pc = "parsed"
    /\ status = "done"
    /\ repl' = [repl EXCEPT !.pc = "prompt", !.printed = result]
    /\ source' = <<>>
    /\ parsed' = NoParse
    /\ status' = "idle"
    /\ stack' = <<>>
    /\ result' = NoResult
    /\ log' = <<>>
    /\ writes' = 0
    /\ call' = NoCall
    /\ UNCHANGED <<scopes, handles, envVars, codeVars, overflow_checks>>

InitRepl ==
    /\ DevProfile
    /\ InterpreterInit
    /\ AtlasInit
    /\ source = <<>>
    /\ parsed = NoParse
    /\ repl = [pc |-> "prompt", printed |-> NoResult, read |-> 0]

NextRepl ==
    \/ \E line \in Lines : ReadLine(line)
    \/ ReadError
    \/ Exit
    \/ ParseLine
    \/ EvalLine
    \/ EvalAtom
    \/ EvalTarget
    \/ EvalArg
    \/ Apply
    \/ Branch
    \/ PrintLine

SpecRepl == InitRepl /\ [][NextRepl]_vars

(***************************************************************************)
(* The environment on its own: a caller that creates handles with clone    *)
(* and clone_child and reads and writes through any of them.               *)
(***************************************************************************)
Values == {Integer(1), Integer(2)}

InitEnv ==
    /\ DevProfile
    /\ InterpreterInit
    /\ AtlasInit
    /\ NoSource

\* #[derive(Clone)]: a handle on the same scopes.
Clone(h) ==
    /\ Len(handles) < MaxHandles
    /\ handles' = Append(handles, handles[h])
    /\ UNCHANGED <<scopes, envVars, evalVars, codeVars, parseVars, overflow_checks>>

\* Env::clone_child: self.clone(), then push_back a new scope.
CloneChild(h) ==
    /\ Len(handles) < MaxHandles
    /\ scopes' = Append(scopes, EmptyScope)
    /\ handles' = Append(handles, Append(handles[h], Len(scopes) + 1))
    /\ UNCHANGED <<envVars, evalVars, codeVars, parseVars, overflow_checks>>

\* builtin_get(&env, key)
Get(h, key) ==
    /\ observed' = [handle |-> h, key |-> key, value |-> builtin_get(scopes, handles[h], key)]
    /\ UNCHANGED <<scopes, handles, lastSet, scopeLock, worker, evalVars, codeVars, parseVars, overflow_checks>>

\* builtin_set(&mut env, key, value)
Set(h, key, value) ==
    /\ scopes' = builtin_set(scopes, handles[h], key, value)
    /\ lastSet' = [lastSet EXCEPT ![key] = [handle |-> h, value |-> value]]
    /\ UNCHANGED <<handles, observed, scopeLock, worker, evalVars, codeVars, parseVars, overflow_checks>>

NextEnv ==
    \/ \E h \in 1..Len(handles) : Clone(h)
    \/ \E h \in 1..Len(handles) : CloneChild(h)
    \/ \E h \in 1..Len(handles), key \in Keys : Get(h, key)
    \/ \E h \in 1..Len(handles), key \in Keys, value \in Values : Set(h, key, value)

SpecEnv == InitEnv /\ [][NextEnv]_vars

(***************************************************************************)
(* Env::get and Env::set called from several threads on handles that share *)
(* scopes, beside threads that load source text.  A call is one thread's   *)
(* walk through the source: each lock() is a step that waits for the       *)
(* Mutex, each drop of a MutexGuard is part of the step that ends its      *)
(* block.                                                                  *)
(*   get_lock    about to run scope.lock() on scope_stack[at]              *)
(*   get_look    holding that scope: scope.0.get(key)                      *)
(*   set_lock    about to run scope.lock() on scope_stack.back_mut()       *)
(*   set_insert  holding that scope: scope.0.insert(key, value)            *)
(***************************************************************************)
\* The thread that holds the Mutex of scope s, or 0.
Holder(locks, s) == IF s \in DOMAIN locks THEN locks[s] ELSE 0

\* scope.lock().unwrap() returning the guard to thread t
Acquire(locks, s, t) == [x \in DOMAIN locks \cup {s} |-> IF x = s THEN t ELSE locks[x]]

\* A guard that is kept when its block ends.
ReleaseNothing(locks, s) == locks

\* The MutexGuard dropped at the end of its block.
Release(locks, s) == [x \in DOMAIN locks \ {s} |-> locks[x]]

\* The scope a thread's call is at.
ScopeAt(t) == handles[worker[t].handle][worker[t].at]

\* pub fn get(&self, key: &str): self.scope_stack.iter().rev()
GetCall(t, h, key) ==
    /\ worker[t].pc = "idle"
    /\ loader[t].pc = "idle"
    /\ worker' = [worker EXCEPT ![t] =
                     [IdleWorker EXCEPT !.pc = "get_lock", !.handle = h, !.key = key,
                                        !.at = Len(handles[h])]]
    /\ UNCHANGED <<scopes, handles, observed, lastSet, scopeLock>>
    /\ UNCHANGED <<evalVars, codeVars, parseVars, overflow_checks>>

\* let scope = scope.lock().unwrap();
GetLock(t) ==
    /\ worker[t].pc = "get_lock"
    /\ CanLock(Holder(scopeLock, ScopeAt(t)))
    /\ scopeLock' = Acquire(scopeLock, ScopeAt(t), t)
    /\ worker' = [worker EXCEPT ![t].pc = "get_look"]
    /\ UNCHANGED <<scopes, handles, observed, lastSet>>
    /\ UNCHANGED <<evalVars, codeVars, parseVars, overflow_checks>>

\* if let Some(expr) = scope.0.get(key) { return Some(expr.clone()); }
GetFound(t) ==
    /\ worker[t].pc = "get_look"
    /\ scopes[ScopeAt(t)][worker[t].key] # Unbound
    /\ observed' = [handle |-> worker[t].handle, key |-> worker[t].key,
                    value |-> scopes[ScopeAt(t)][worker[t].key]]
    /\ scopeLock' = Release(scopeLock, ScopeAt(t))
    /\ worker' = [worker EXCEPT ![t] = IdleWorker]
    /\ UNCHANGED <<scopes, handles, lastSet>>
    /\ UNCHANGED <<evalVars, codeVars, parseVars, overflow_checks>>

\* The key is not in this scope: the guard is dropped as the loop body ends,
\* and the loop goes to the next scope out, or get returns None (which
\* builtin_get turns into Nil).
GetMissed(t) ==
    /\ worker[t].pc = "get_look"
    /\ scopes[ScopeAt(t)][worker[t].key] = Unbound
    /\ scopeLock' = Release(scopeLock, ScopeAt(t))
    /\ IF worker[t].at = 1
       THEN /\ observed' = [handle |-> worker[t].handle, key |-> worker[t].key,
                            value |-> Nil]
            /\ worker' = [worker EXCEPT ![t] = IdleWorker]
       ELSE /\ worker' = [worker EXCEPT ![t].pc = "get_lock", ![t].at = @ - 1]
            /\ UNCHANGED observed
    /\ UNCHANGED <<scopes, handles, lastSet>>
    /\ UNCHANGED <<evalVars, codeVars, parseVars, overflow_checks>>

\* pub fn set(&mut self, key, value): self.scope_stack.back_mut()
SetCall(t, h, key, value) ==
    /\ worker[t].pc = "idle"
    /\ loader[t].pc = "idle"
    /\ worker' = [worker EXCEPT ![t] =
                     [IdleWorker EXCEPT !.pc = "set_lock", !.handle = h, !.key = key,
                                        !.value = value, !.at = Len(handles[h])]]
    /\ UNCHANGED <<scopes, handles, observed, lastSet, scopeLock>>
    /\ UNCHANGED <<evalVars, codeVars, parseVars, overflow_checks>>

\* let mut scope = scope.lock().unwrap();
SetLock(t) ==
    /\ worker[t].pc = "set_lock"
    /\ CanLock(Holder(scopeLock, ScopeAt(t)))
    /\ scopeLock' = Acquire(scopeLock, ScopeAt(t), t)
    /\ worker' = [worker EXCEPT ![t].pc = "set_insert"]
    /\ UNCHANGED <<scopes, handles, observed, lastSet>>
    /\ UNCHANGED <<evalVars, codeVars, parseVars, overflow_checks>>

\* scope.0.insert(key, value); and the guard is dropped as set returns
SetInsert(t) ==
    /\ worker[t].pc = "set_insert"
    /\ scopes' = [scopes EXCEPT ![ScopeAt(t)][worker[t].key] = worker[t].value]
    /\ lastSet' = [lastSet EXCEPT ![worker[t].key] =
                      [handle |-> worker[t].handle, value |-> worker[t].value]]
    /\ scopeLock' = Release(scopeLock, ScopeAt(t))
    /\ worker' = [worker EXCEPT ![t] = IdleWorker]
    /\ UNCHANGED <<handles, observed>>
    /\ UNCHANGED <<evalVars, codeVars, parseVars, overflow_checks>>

\* A thread that is in no Env call loads a snippet.
LoadCall(t, src) ==
    /\ worker[t].pc = "idle"
    /\ FromSnippet(t, src)

\* The keys, values and texts of the threads' calls.
SharedKeys == {"x"}
SharedValues == {Integer(1)}
SharedTexts == {<<"1">>}

InitThreads ==
    /\ DevProfile
    /\ InterpreterInit
    /\ AtlasInit
    /\ NoSource

NextThreads ==
    \/ \E h \in 1..Len(handles) : Clone(h)
    \/ \E h \in 1..Len(handles) : CloneChild(h)
    \/ \E t \in Workers, h \in 1..Len(handles), key \in SharedKeys : GetCall(t, h, key)
    \/ \E t \in Workers, h \in 1..Len(handles), key \in SharedKeys, value \in SharedValues :
          SetCall(t, h, key, value)
    \/ \E t \in Workers, src \in SharedTexts : LoadCall(t, src)
    \/ \E t \in Workers : GetLock(t)
    \/ \E t \in Workers : GetFound(t)
    \/ \E t \in Workers : GetMissed(t)
    \/ \E t \in Workers : SetLock(t)
    \/ \E t \in Workers : SetInsert(t)
    \/ \E t \in Workers : Digest(t)
    \/ \E t \in Workers : Lock(t)
    \/ \E t \in Workers : Entry(t)
    \/ \E t \in Workers : OrInsertWith(t)
    \/ \E t \in Workers : CloneAndUnlock(t)

SpecThreads == InitThreads /\ [][NextThreads]_vars

\* A thread that is inside a call goes on running: every step that does not
\* wait is taken in the end, and a lock() that finds its Mutex free again and
\* again gets it in the end.  Nothing obliges a thread to make a call.
FairThreads ==
    \A t \in Workers :
        /\ WF_vars(GetFound(t) \/ GetMissed(t) \/ SetInsert(t))
        /\ WF_vars(Digest(t) \/ Entry(t) \/ OrInsertWith(t) \/ CloneAndUnlock(t))
        /\ SF_vars(GetLock(t))
        /\ SF_vars(SetLock(t))
        /\ SF_vars(Lock(t))

SpecThreadsFair == SpecThreads /\ FairThreads

(***************************************************************************)
(* Reading the handles.                                                    *)
(***************************************************************************)
\* Handle c holds the scopes of handle h, and possibly more: c is h, a clone
\* of h, or was obtained from h by clone_child.
Extends(c, h) ==
    /\ Len(handles[h]) <= Len(handles[c])
    /\ SubSeq(handles[c], 1, Len(handles[h])) = handles[h]

\* The scopes c has on top of those of h.
OwnScopes(c, h) == {handles[c][i] : i \in (Len(handles[h]) + 1)..Len(handles[c])}

Binds(s, key) == scopes[s][key] # Unbound

BoundNowhere(c, key) == \A i \in 1..Len(handles[c]) : ~Binds(handles[c][i], key)

UnboundIsNil ==
    \A c \in 1..Len(handles) : \A key \in Keys :
        BoundNowhere(c, key) => builtin_get(scopes, handles[c], key) = Nil

(***************************************************************************)
(* C5: after set(x, v) through a handle, and until the next set of x,      *)
(* get(x) returns v through that handle and through every handle obtained  *)
(* from it by clone_child; get of a name bound in no scope returns nil.    *)
(***************************************************************************)
C5_SetIsSeenByEveryChild ==
    /\ \A key \in Keys :
          lastSet[key] # NoSet =>
              \A c \in 1..Len(handles) :
                  Extends(c, lastSet[key].handle) =>
                      builtin_get(scopes, handles[c], key) = lastSet[key].value
    /\ UnboundIsNil

(***************************************************************************)
(* C5, amended: ... through that handle and through every handle obtained  *)
(* from it by clone_child none of whose own scopes binds x.                *)
(***************************************************************************)
C5_SetIsSeenByChildrenThatDoNotBind ==
    /\ \A key \in Keys :
          lastSet[key] # NoSet =>
              \A c \in 1..Len(handles) :
                  (/\ Extends(c, lastSet[key].handle)
                   /\ \A s \in OwnScopes(c, lastSet[key].handle) : ~Binds(s, key))
                  => builtin_get(scopes, handles[c], key) = lastSet[key].value
    /\ UnboundIsNil

\* A get through a child returned what the parent's set bound, while another
\* name is bound nowhere.
C5_Witness ==
    \E c, h \in 1..Len(handles) :
        /\ Len(handles[h]) < Len(handles[c])
        /\ Extends(c, h)
        /\ lastSet["x"] = [handle |-> h, value |-> Integer(1)]
        /\ observed = [handle |-> c, key |-> "x", value |-> Integer(1)]
        /\ BoundNowhere(c, "y")

(***************************************************************************)
(* C6: get returns the binding of the innermost scope that binds the name; *)
(* set changes the innermost scope of the handle that writes and no other  *)
(* scope, so a set through a child handle never changes what a get through *)
(* the parent returns.                                                     *)
(***************************************************************************)
InnermostBinding(chain, key) ==
    LET binders == {i \in 1..Len(chain) : Binds(chain[i], key)}
    IN  IF binders = {} THEN Nil
        ELSE scopes[chain[CHOOSE i \in binders : \A k \in binders : k <= i]][key]

GetReturnsInnermost(h, key) ==
    Get(h, key) => observed'.value = InnermostBinding(handles[h], key)

SetWritesInnermostOnly(h, key, value) ==
    Set(h, key, value) =>
        /\ \A s \in 1..Len(scopes) :
              scopes'[s] = IF s = handles[h][Len(handles[h])]
                           THEN [scopes[s] EXCEPT ![key] = value]
                           ELSE scopes[s]
        /\ \A a \in 1..Len(handles) :
              (Extends(h, a) /\ Len(handles[a]) < Len(handles[h])) =>
                  \A k \in Keys :
                      builtin_get(scopes', handles[a], k) = builtin_get(scopes, handles[a], k)

C6_InnermostScope ==
    [][/\ \A h \in 1..Len(handles), key \in Keys : GetReturnsInnermost(h, key)
       /\ \A h \in 1..Len(handles), key \in Keys, value \in Values :
              SetWritesInnermostOnly(h, key, value)]_vars

\* The child has bound x to 2 over the parent's 1, and a get through the parent
\* returned 1.
C6_Witness ==
    \E c, h \in 1..Len(handles) :
        /\ Len(handles[h]) < Len(handles[c])
        /\ Extends(c, h)
        /\ lastSet["x"] = [handle |-> c, value |-> Integer(2)]
        /\ builtin_get(scopes, handles[c], "x") = Integer(2)
        /\ builtin_get(scopes, handles[h], "x") = Integer(1)
        /\ observed = [handle |-> h, key |-> "x", value |-> Integer(1)]

(***************************************************************************)
(* C7: under any interleaving of loads, the lookup-or-create step on the   *)
(* registry is atomic: loads of the same content all return the same       *)
(* buffer, and there is never more than one buffer of a content.           *)
(***************************************************************************)
InCriticalSection(t) == loader[t].pc \in {"entry", "insert", "clone"}

C7_LoadsConverge ==
    /\ \A t, u \in Loaders : (InCriticalSection(t) /\ InCriticalSection(u)) => t = u
    /\ \A p, q \in loaded : p[1] = q[1] => p[3] = q[3]
    /\ \A i, j \in 1..Len(buffers) : buffers[i].text = buffers[j].text => i = j
    /\ \A d \in DOMAIN atlas : buffers[atlas[d]].sha = d

\* Two loads of one text at the same time: one creates the buffer while the
\* other waits for the lock.
C7_Witness ==
    \E t, u \in Loaders :
        /\ loader[t].pc = "insert"
        /\ loader[u].pc = "lock"
        /\ loader[t].text = loader[u].text

(***************************************************************************)
(* C8: loading a content loaded before, from a file or as a snippet,       *)
(* returns a handle equal to the earlier one, on the same buffer; loading  *)
(* a content never loaded returns a handle that differs from all earlier   *)
(* ones; and no step removes or replaces a registered buffer.              *)
(***************************************************************************)
\* Arc<Code> == Arc<Code>: the derived PartialEq of Code, field by field.
HandlesEqual(g, h) ==
    /\ buffers[g].sha = buffers[h].sha
    /\ buffers[g].name = buffers[h].name
    /\ buffers[g].file_path = buffers[h].file_path
    /\ buffers[g].text = buffers[h].text

LoadsAgree ==
    \A p, q \in loaded :
        IF p[1] = q[1]
        THEN p[3] = q[3] /\ HandlesEqual(p[3], q[3])
        ELSE p[3] # q[3] /\ ~HandlesEqual(p[3], q[3])

RegistryOnlyGrows ==
    \A d \in DOMAIN atlas :
        /\ d \in DOMAIN atlas'
        /\ atlas'[d] = atlas[d]
        /\ buffers'[atlas[d]] = buffers[atlas[d]]

C8_InterningIsIdempotent == [][LoadsAgree /\ LoadsAgree' /\ RegistryOnlyGrows]_vars

\* One text loaded as a snippet and from a file, on one buffer, and another text
\* on another buffer.
C8_Witness ==
    \E p, q, r \in loaded :
        /\ p[1] = q[1] /\ p[2] = None /\ q[2] # None /\ p[3] = q[3]
        /\ r[1] # p[1] /\ r[3] # p[3]

(***************************************************************************)
(* Reading the history of a call.                                          *)
(***************************************************************************)
IsEval(ev) == ev[1] = "eval"
IsApply(ev) == ev[1] = "apply"
IsBranch(ev) == ev[1] = "branch"
IsApplyOf(ev, name) == IsApply(ev) /\ ev[3] = Symbol(name)

\* p is a proper prefix of r: r is a node below p.
IsBelow(r, p) == Len(p) < Len(r) /\ SubSeq(r, 1, Len(p)) = p

Ended == status \in {"done", "panicked", "overflow"}

(***************************************************************************)
(* C1: an invocation of set, get, car, cdr, cons or if with the wrong      *)
(* number or kind of arguments makes eval return an error value to its     *)
(* caller, and never ends the process.                                     *)
(***************************************************************************)
Malformed(target, new_args) ==
    \/ /\ target = Symbol("set")
       /\ (Len(new_args) < 2 \/ ~IsSymbol(new_args[1]))
    \/ /\ target = Symbol("get")
       /\ (Len(new_args) < 1 \/ ~IsSymbol(new_args[1]))
    \/ /\ target \in {Symbol("car"), Symbol("cdr"), Symbol("cons")}
       /\ (Len(new_args) < 1 \/ ~IsCombination(new_args[1]))
    \/ /\ target = Symbol("cdr")
       /\ Len(new_args) >= 1 /\ IsCombination(new_args[1]) /\ Len(new_args[1][3]) < 2
    \/ /\ target = Symbol("cons")
       /\ Len(new_args) >= 1 /\ IsCombination(new_args[1]) /\ Len(new_args[1][3]) < 1
    \/ /\ target = Symbol("if")
       /\ Len(new_args) # 3

C1_MalformedInvocationReturnsErr ==
    /\ status # "panicked"
    /\ \A i \in 1..Len(log) :
          /\ IsApply(log[i]) /\ Malformed(log[i][3], log[i][4]) => log[i][5][1] = "Err"
          /\ IsBranch(log[i]) /\ log[i][3][1] # "Boolean" => log[i][4][1] = "Err"

(***************************************************************************)
(* C3: every call of evaluate finishes after finitely many calls of eval.  *)
(* eval is a function of the expression and the environment, so a call of  *)
(* eval nested in a call of eval on the same expression, with no write to  *)
(* the environment in between, repeats without end: a call that finishes   *)
(* never holds such a pair, and never exhausts the host stack.             *)
(***************************************************************************)
Reentered ==
    \E i, j \in 1..Len(stack) :
        /\ i < j
        /\ stack[i].expr = stack[j].expr
        /\ stack[i].at_entry = stack[j].at_entry

C3_EvaluateFinishes == ~Reentered

(***************************************************************************)
(* C4: in a combination the operator is evaluated first, then the          *)
(* arguments left to right, each to completion, and only then is the       *)
(* primitive applied; so a get sees exactly the sets that come before it   *)
(* in that order.                                                          *)
(***************************************************************************)
\* Two events of different subtrees: the one of the earlier sibling comes first.
SiblingsInOrder ==
    \A i, j \in 1..Len(log) :
        i < j =>
            \A d \in 1..Len(log[i][2]) :
                (/\ d <= Len(log[j][2])
                 /\ SubSeq(log[i][2], 1, d - 1) = SubSeq(log[j][2], 1, d - 1)
                 /\ log[i][2][d] # log[j][2][d])
                => log[i][2][d] < log[j][2][d]

\* A combination's primitive is applied after its operator and every argument
\* have been evaluated, and nothing of them is evaluated afterwards.
ApplyAfterArguments ==
    \A j \in 1..Len(log) :
        IsApply(log[j]) =>
            /\ \A c \in 0..Len(log[j][4]) :
                  \E i \in 1..(j - 1) :
                      IsEval(log[i]) /\ log[i][2] = Append(log[j][2], c)
            /\ \A i \in 1..Len(log) :
                  IsBelow(log[i][2], log[j][2]) =>
                      (i < j <=> log[i][2][Len(log[j][2]) + 1] <= Len(log[j][4]))

\* The sets of a key applied before event j of the log.
SetsBefore(j, key) ==
    {i \in 1..(j - 1) :
        /\ IsApplyOf(log[i], "set")
        /\ log[i][5] = Ok(Nil)
        /\ log[i][4][1] = Symbol(key)}

Latest(S) == CHOOSE i \in S : \A k \in S : k <= i

\* A get returns what the latest set before it bound, or what the call found.
GetSeesTheSetsBefore ==
    \A j \in 1..Len(log) :
        (IsApplyOf(log[j], "get") /\ log[j][5][1] = "Ok") =>
            LET key == log[j][4][1][2]
                before == SetsBefore(j, key)
            IN  log[j][5][2] =
                    IF before = {}
                    THEN builtin_get(call.scopes, InterpreterEnv, key)
                    ELSE log[Latest(before)][4][2]

C4_EvaluationOrder ==
    /\ SiblingsInOrder
    /\ ApplyAfterArguments
    /\ GetSeesTheSetsBefore

\* (foo (get x) (set x 1) (get x)) in a fresh environment: the first get sees
\* nothing, the second sees the binding.
C4_Witness ==
    /\ status = "done"
    /\ call.scopes = <<EmptyScope>>
    /\ call.expr = Combination(Symbol("foo"), <<GetX, SetX(Integer(1)), GetX>>)
    /\ result = Ok(Combination(Symbol("foo"), <<Nil, Nil, Integer(1)>>))

(***************************************************************************)
(* C9: for (if c t e), t and e are both evaluated, with their effects,     *)
(* whichever branch is chosen, and the condition is evaluated twice: as an *)
(* argument, and once more by the if arm, on the condition's value, before *)
(* the branch is chosen.                                                   *)
(***************************************************************************)
\* The paths of the combinations of e, e being at path.
RECURSIVE CombinationsOf(_, _)
CombinationsOf(e, path) ==
    IF IsCombination(e)
    THEN {path}
         \cup CombinationsOf(e[2], Append(path, 0))
         \cup UNION {CombinationsOf(e[3][k], Append(path, k)) : k \in 1..Len(e[3])}
    ELSE {}

\* The expression whose evaluation begins at event i, if it is an if
\* combination of three arguments.
IsIfCall(ev) ==
    /\ IsEval(ev)
    /\ IsCombination(ev[3])
    /\ ev[3][2] = Symbol("if")
    /\ Len(ev[3][3]) = 3

\* The if arm of the call begun at event i has acted at event j.
IfApplied(i, j) ==
    /\ IsIfCall(log[i])
    /\ i < j
    /\ IsApply(log[j])
    /\ log[j][2] = log[i][2]

C9_IfEvaluatesBothBranches ==
    \A i, j \in 1..Len(log) :
        IfApplied(i, j) =>
            LET q == log[i][2]
                args == log[i][3][3]
            IN  \* every combination of c, t and e has been applied
                /\ \A k \in 1..3 :
                      \A r \in CombinationsOf(args[k], Append(q, k)) :
                          \E a \in (i + 1)..(j - 1) : IsApply(log[a]) /\ log[a][2] = r
                \* the condition was evaluated as an argument ...
                /\ \E a \in (i + 1)..(j - 1) : log[a] = EvalEvent(Append(q, 1), args[1])
                \* ... and its value is evaluated again, before any branch is chosen
                /\ status # "overflow" =>
                      /\ j < Len(log)
                      /\ log[j + 1] = EvalEvent(Append(q, 4), log[j][4][1])
                /\ \A b \in 1..Len(log) :
                      (IsBranch(log[b]) /\ log[b][2] = q) => j + 1 < b

\* (if TRUE (set x 1) (set x FALSE)): the then branch is chosen, and x holds
\* what the else branch bound.
C9_Witness ==
    /\ status = "done"
    /\ call.expr = Combination(Symbol("if"),
                       <<Boolean(TRUE), SetX(Integer(1)), SetX(Boolean(FALSE))>>)
    /\ result = Ok(Nil)
    /\ builtin_get(scopes, InterpreterEnv, "x") = Boolean(FALSE)
    /\ \E b \in 1..Len(log) : log[b] = BranchEvent(<<>>, Boolean(TRUE), Ok(Nil))

(***************************************************************************)
(* C10: + adds its evaluated arguments left to right: no argument gives    *)
(* Integer 0, integers give an Integer, numbers with a Float among them    *)
(* give a Float, and an argument that is no number gives an error naming   *)
(* the first such argument.                                                *)
(***************************************************************************)
IsNumber(e) == e[1] \in {"Integer", "Float"}

\* The least decimal exponent among numbers (an Integer has exponent 0).
RECURSIVE LeastExponent(_)
LeastExponent(args) ==
    IF args = <<>> THEN 0
    ELSE LET rest == LeastExponent(Tail(args))
             own == IF args[1][1] = "Integer" THEN 0 ELSE args[1][2][2]
         IN  IF own < rest THEN own ELSE rest

\* The sum of numbers, in units of 10^e.
RECURSIVE SumInUnits(_, _)
SumInUnits(args, e) ==
    IF args = <<>> THEN 0
    ELSE (IF args[1][1] = "Integer"
          THEN args[1][2][2] * Pow10(0 - e)
          ELSE args[1][2][1] * Pow10(args[1][2][2] - e))
         + SumInUnits(Tail(args), e)

PlusAsSpecified(new_args) ==
    LET strangers == {k \in 1..Len(new_args) : ~IsNumber(new_args[k])}
    IN  IF strangers # {}
        THEN Err(<<"Invalid argument for '+': expected Integer or Float, found",
                   new_args[CHOOSE k \in strangers : \A m \in strangers : k <= m]>>)
        ELSE IF \A k \in 1..Len(new_args) : new_args[k][1] = "Integer"
        THEN Ok(Integer(SumInUnits(new_args, 0)))
        ELSE Ok(Float(F64(SumInUnits(new_args, LeastExponent(new_args)),
                          LeastExponent(new_args))))

C10_PlusPromotes ==
    \A i \in 1..Len(log) :
        IsApplyOf(log[i], "+") => log[i][5] = PlusAsSpecified(log[i][4])

\* (+ 1 2.5) is the Float 3.5, (+) is the Integer 0, and (+ 1 x 2.5) is an error
\* naming x.
C10_Witness ==
    /\ status = "done"
    /\ \/ /\ call.expr = Combination(Symbol("+"), <<Integer(1), Float(F64(25, -1))>>)
          /\ result = Ok(Float(F64(35, -1)))
       \/ /\ call.expr = Combination(Symbol("+"), <<Float(F64(25, -1)), Integer(1), Integer(1)>>)
          /\ result = Ok(Float(F64(45, -1)))

(***************************************************************************)
(* C2: parse_snippet succeeds only on a source that is whitespace, one     *)
(* expression and whitespace: when it has returned Ok, nothing but         *)
(* whitespace follows the expression it returned.                          *)
(***************************************************************************)
RestAfter(p) == multispace0(source, p.span.end)

C2_WholeSourceIsOneExpression ==
    parsed[1] = "Ok" => RestAfter(parsed[2]) = Len(source)

(***************************************************************************)
(* C11: a combination whose evaluated operator is none of the primitive    *)
(* names, or no symbol at all, does not fail at dispatch: eval returns the *)
(* combination of the evaluated operator and the evaluated arguments in    *)
(* their order (an argument that is an atom is its own value), and the     *)
(* dispatch writes nothing to the environment.                             *)
(***************************************************************************)
AtDispatch ==
    /\ status = "running"
    /\ Top.pc = "args"
    /\ Len(Top.new_args) = Len(Top.expr[3])

IsPrimitive(target) == IsSymbol(target) /\ target[2] \in PrimitiveNames

\* The top call returns Ok(v) in this step: to the caller of evaluate, or to
\* the eval that called it.
Returns(v) ==
    IF Len(stack) = 1
    THEN status' = "done" /\ result' = Ok(v)
    ELSE /\ status' = "running"
         /\ Len(stack') = Len(stack) - 1
         /\ stack'[Len(stack')] = Resume(Below[Len(Below)], v)

FallbackStep ==
    AtDispatch /\ ~IsPrimitive(Top.target) =>
        /\ Returns(Combination(Top.target, Top.new_args))
        /\ Len(Top.new_args) = Len(Top.expr[3])
        /\ \A i \in 1..Len(Top.expr[3]) :
              ~IsCombination(Top.expr[3][i]) => Top.new_args[i] = Top.expr[3][i]
        /\ scopes' = scopes

C11_UnknownOperatorYieldsCombination == [][FallbackStep]_vars

\* (1 2 (get x)) and ((foo) 2) have returned combinations of their values.
C11_Witness ==
    /\ status = "done"
    /\ \/ /\ call.expr = Combination(Integer(1), <<Integer(2), GetX>>)
          /\ result = Ok(Combination(Integer(1), <<Integer(2), Nil>>))
       \/ /\ call.expr = Combination(EmptyFoo, <<Integer(2)>>)
          /\ result = Ok(Combination(EmptyFoo, <<Integer(2)>>))

(***************************************************************************)
(* C12: an error raised while the operator or an argument of a combination *)
(* is evaluated is what evaluate returns, at once and unchanged, from any  *)
(* depth: the failing application is the last thing the call did, so no    *)
(* later sibling is evaluated, no primitive of an enclosing combination is *)
(* applied, and nothing is tried again.                                    *)
(***************************************************************************)
ReturnedErr(ev) == IsApply(ev) /\ ev[5][1] = "Err"

C12_ErrorsPropagateAtOnce ==
    \A i \in 1..Len(log) :
        ReturnedErr(log[i]) =>
            /\ i = Len(log)
            /\ status = "done"
            /\ stack = <<>>
            /\ result = log[i][5]

\* (foo (foo 1 (+ x)) (set x 1)) has returned the error of (+ x), raised two
\* combinations down, and x is not set.
C12_Witness ==
    /\ status = "done"
    /\ call.expr = Combination(Symbol("foo"), <<DeepBadPlus, SetX(Integer(1))>>)
    /\ result[1] = "Err"
    /\ Len(log) > 0 /\ ReturnedErr(log[Len(log)]) /\ Len(log[Len(log)][2]) = 2
    /\ scopes = call.scopes
    /\ \A i \in 1..Len(log) : ~IsApplyOf(log[i], "set")

(***************************************************************************)
(* C13: if with three evaluated arguments yields the value of the then     *)
(* argument when the condition, evaluated again, is true, the value of the *)
(* else argument when it is false, and otherwise signals that the          *)
(* condition is no boolean and yields no value; what the top-level if      *)
(* yields is what evaluate returns.                                        *)
(***************************************************************************)
\* The branch event j belongs to the application i of if.
BranchOf(i, j) ==
    /\ i < j
    /\ IsApplyOf(log[i], "if")
    /\ IsBranch(log[j])
    /\ log[i][2] = log[j][2]

BranchAsSpecified(new_args, condition, outcome) ==
    /\ Len(new_args) = 3
    /\ ~IsCombination(new_args[1]) => condition = new_args[1]
    /\ condition = Boolean(TRUE) => outcome = Ok(new_args[2])
    /\ condition = Boolean(FALSE) => outcome = Ok(new_args[3])
    /\ condition \notin {Boolean(TRUE), Boolean(FALSE)} =>
          outcome = Panic("if requires a boolean condition")

C13_IfSelectsByBoolean ==
    \A j \in 1..Len(log) :
        IsBranch(log[j]) =>
            /\ \E i \in 1..Len(log) :
                  BranchOf(i, j) /\ BranchAsSpecified(log[i][4], log[j][3], log[j][4])
            /\ j = Len(log) /\ log[j][2] = <<>> /\ status = "done" => result = log[j][4]
            /\ log[j][4][1] = "Panic" => status = "panicked" /\ result = log[j][4]

\* x being false, (if (get x) TRUE (set x 1)) has returned the value of its
\* else argument, nil.
C13_Witness ==
    /\ status = "done"
    /\ call.expr = Combination(Symbol("if"), <<GetX, Boolean(TRUE), SetX(Integer(1))>>)
    /\ Len(log) > 0 /\ IsBranch(log[Len(log)])
    /\ log[Len(log)][3] = Boolean(FALSE)
    /\ result = Ok(Nil)

(***************************************************************************)
(* C14: applied to a combination with operator op and arguments a1..an,    *)
(* car returns op; cdr returns, when n >= 2, the combination with operator *)
(* a1 and arguments a2..an; cons returns, when n >= 1, a combination equal *)
(* to its argument; and none of them changes the environment.              *)
(***************************************************************************)
ListStep ==
    AtDispatch /\ Top.target \in ListOperators
               /\ Len(Top.new_args) >= 1 /\ IsCombination(Top.new_args[1]) =>
        LET op == Top.new_args[1][2]
            a == Top.new_args[1][3]
            n == Len(a)
        IN  /\ Top.target = Symbol("car") => Returns(op)
            /\ Top.target = Symbol("cdr") /\ n >= 2 =>
                  Returns(Combination(a[1], [i \in 1..(n - 1) |-> a[i + 1]]))
            /\ Top.target = Symbol("cons") /\ n >= 1 => Returns(Top.new_args[1])
            /\ scopes' = scopes

C14_CarCdrCons == [][ListStep]_vars

\* (cdr (foo x 1 TRUE)) has returned (x 1 TRUE).
C14_Witness ==
    /\ status = "done"
    /\ call.expr = Combination(Symbol("cdr"),
            <<Combination(Symbol("foo"), <<Symbol("x"), Integer(1), Boolean(TRUE)>>)>>)
    /\ result = Ok(Combination(Symbol("x"), <<Integer(1), Boolean(TRUE)>>))

(***************************************************************************)
(* C15: the span of a successful top-level parse lies in the buffer of the *)
(* source, start <= end <= its length, and the buffer's text from start to *)
(* end is the text of the expression alone: only whitespace comes before   *)
(* it, it begins and ends with a character that is no whitespace, and      *)
(* parsed on its own it is the same expression, consumed whole.            *)
(***************************************************************************)
Slice(span) == Fragment(buffers[span.code].text, span.start, span.end)

SpanCoversExpression(p) ==
    /\ p.span.code \in 1..Len(buffers)
    /\ buffers[p.span.code].text = source
    /\ 0 <= p.span.start /\ p.span.start <= p.span.end /\ p.span.end <= Len(source)
    /\ \A i \in 1..p.span.start : source[i] \in Whitespace
    /\ Slice(p.span) # <<>>
    /\ Slice(p.span)[1] \notin Whitespace
    /\ Slice(p.span)[Len(Slice(p.span))] \notin Whitespace
    /\ LET alone == complete_expr(p.span.code, Slice(p.span))
       IN  /\ alone[1] = "Ok"
           /\ alone[2].value = p.value
           /\ alone[2].span.start = 0
           /\ alone[2].span.end = Len(Slice(p.span))

C15_SpanIsTheExpression == parsed[1] = "Ok" => SpanCoversExpression(parsed[2])

\* " 11 " has parsed to the Integer 11 with the span 1..3.
C15_Witness ==
    /\ source = <<" ", "1", "1", " ">>
    /\ parsed[1] = "Ok"
    /\ parsed[2].value = Integer(11)
    /\ parsed[2].span.start = 1 /\ parsed[2].span.end = 3

(***************************************************************************)
(* C16: digits separated by underscores are one number literal: the source *)
(* parses to the Integer its digits denote with the underscores removed,   *)
(* and the whole of it is consumed.                                        *)
(***************************************************************************)
\* Digits and underscores, with a digit first and last and an underscore within.
IsSeparatedDigits(text) ==
    /\ text # <<>>
    /\ \A i \in 1..Len(text) : text[i] \in DigitSet \cup {"_"}
    /\ text[1] \in DigitSet /\ text[Len(text)] \in DigitSet
    /\ \E i \in 1..Len(text) : text[i] = "_"

WithoutUnderscores(text) == SelectSeq(text, LAMBDA c : c # "_")

C16_UnderscoresSeparateDigits ==
    parsed # NoParse /\ IsSeparatedDigits(source) =>
        /\ parsed[1] = "Ok"
        /\ parsed[2].value = Integer(DigitsValue(WithoutUnderscores(source)))
        /\ parsed[2].span.start = 0
        /\ parsed[2].span.end = Len(source)

(***************************************************************************)
(* C17: the parser accepts as a combination exactly                        *)
(*     '(' expr whitespace+ expr (whitespace+ expr)* ')'                   *)
(* and yields the combination of the first expression and the others in    *)
(* their order: a source that begins with '(' parses iff it begins with a  *)
(* combination of that grammar, and then to that combination.              *)
(***************************************************************************)
Rejected == PError("no combination of the grammar")

RECURSIVE GrammarExpr(_, _, _)
RECURSIVE GrammarArgs(_, _, _, _)
RECURSIVE GrammarCombination(_, _, _)

\* expr := number | symbol | combination
GrammarExpr(code, s, o) ==
    LET number == parse_number(code, s, o)
        symbol == parse_symbol(code, s, o)
    IN  IF number[1] = "Ok" THEN number
        ELSE IF number[1] = "Failure" THEN Rejected
        ELSE IF symbol[1] = "Ok" THEN symbol
        ELSE GrammarCombination(code, s, o)

\* (whitespace+ expr)*, after the arguments res that end at i
GrammarArgs(code, s, i, res) ==
    LET w == multispace0(s, i)
        e == GrammarExpr(code, s, w)
    IN  IF w > i /\ e[1] = "Ok" THEN GrammarArgs(code, s, e[2], Append(res, e[3]))
        ELSE POk(i, res)

GrammarCombination(code, s, o) ==
    LET op == GrammarExpr(code, s, o + 1)
        args == GrammarArgs(code, s, op[2], <<>>)
    IN  IF At(s, o) # "(" THEN Rejected
        ELSE IF op[1] # "Ok" THEN Rejected
        ELSE IF args[3] = <<>> \/ At(s, args[2]) # ")" THEN Rejected
        ELSE POk(args[2] + 1, Combination(op[3], args[3]))

C17_CombinationGrammar ==
    LET o == multispace0(source, 0)
        g == GrammarCombination(1, source, o)
    IN  parsed # NoParse /\ At(source, o) = "(" =>
            /\ (parsed[1] = "Ok") = (g[1] = "Ok")
            /\ parsed[1] = "Ok" =>
                  /\ parsed[2].value = g[3]
                  /\ parsed[2].span.end = g[2]

(***************************************************************************)
(* C18: a load whose file cannot be read reports the failure as a value    *)
(* and leaves the registry as it was, no buffer of any content being       *)
(* registered by the failed call.  (The registry is empty before the call  *)
(* of parse_file here.)                                                    *)
(***************************************************************************)
ReadFailed ==
    /\ parsed[1] = "Err"
    /\ parsed[2].error = "Nom"
    /\ parsed[2].kind = "Fail"

C18_FailedLoadRegistersNothing == ReadFailed => atlas = <<>> /\ buffers = <<>>

(***************************************************************************)
(* C19: the REPL handles every line and goes on to the next: no line that  *)
(* fails to parse, no line whose evaluation fails and no empty read at the *)
(* end of input aborts the process.                                        *)
(***************************************************************************)
Aborted == repl.pc = "aborted" \/ status \in {"panicked", "overflow"}

C19_ReplHandlesEveryLine == ~Aborted

(***************************************************************************)
(* C20: a thread inside Env::get, Env::set or the interning operation      *)
(* holds at most one Mutex at any moment, and every such call, whatever    *)
(* the other threads do on handles that share its scopes or on the         *)
(* registry, returns.                                                      *)
(***************************************************************************)
Held(t) ==
    {<<"scope", s>> : s \in {x \in DOMAIN scopeLock : scopeLock[x] = t}}
        \cup (IF atlasLock = t THEN {<<"atlas">>} ELSE {})

InCall(t) == worker[t].pc # "idle" \/ loader[t].pc \notin {"idle", "failed"}

C20_OneMutexAndEveryCallReturns ==
    /\ [](\A t \in Workers : Cardinality(Held(t)) <= 1)
    /\ \A t \in Workers : InCall(t) ~> ~InCall(t)

\* One thread's get has gone past the innermost scope and holds the scope
\* that another thread's set waits for.
C20_Witness ==
    \E t \in Workers, u \in Workers :
        /\ worker[t].pc = "get_look"
        /\ worker[t].at < Len(handles[worker[t].handle])
        /\ worker[u].pc = "set_lock"
        /\ ScopeAt(u) = ScopeAt(t)
        /\ Holder(scopeLock, ScopeAt(t)) = t

(***************************************************************************)
(* C21: + applied to integers only returns the Integer that is the exact   *)
(* sum of its arguments, or an error value, whatever i64 the arguments     *)
(* are: not a sum taken modulo 2^64, and the process is not aborted.       *)
(***************************************************************************)
RECURSIVE ExactSum(_)
ExactSum(args) ==
    IF args = <<>> THEN I64(0) ELSE WideAdd(args[1][2], ExactSum(Tail(args)))

C21_IntegerSumIsExactOrError ==
    (status \in {"done", "panicked", "overflow"} /\ call.expr \in PlusPrograms) =>
        \/ result[1] = "Err"
        \/ result = Ok(Integer64(ExactSum(call.expr[3])))

(***************************************************************************)
(* C22: in a session that starts with a fresh environment and evaluates    *)
(* expressions made by the parser, no value is or contains a Boolean, a    *)
(* String, a Comment, a Duration or a Timestamp: not a result, not a       *)
(* binding, not a value a running call holds.  So no if invocation returns *)
(* a branch: one with three arguments goes to its condition, and when the  *)
(* condition has been evaluated again it fails on it; one with another     *)
(* number of arguments fails on that number.                               *)
(***************************************************************************)
NeverProduced == {"Boolean", "String", "Comment", "Duration", "Timestamp"}

RECURSIVE Contains(_, _)
Contains(e, variants) ==
    \/ e[1] \in variants
    \/ /\ IsCombination(e)
       /\ \/ Contains(e[2], variants)
          \/ \E k \in 1..Len(e[3]) : Contains(e[3][k], variants)

NoneProduced ==
    /\ result[1] = "Ok" => ~Contains(result[2], NeverProduced)
    /\ \A i \in 1..Len(scopes) : \A key \in Keys :
          scopes[i][key] # Unbound => ~Contains(scopes[i][key], NeverProduced)
    /\ \A i \in 1..Len(stack) :
          /\ ~Contains(stack[i].target, NeverProduced)
          /\ ~Contains(stack[i].condition, NeverProduced)
          /\ \A k \in 1..Len(stack[i].new_args) :
                ~Contains(stack[i].new_args[k], NeverProduced)

C22_NoBooleanSoNoBranch ==
    /\ NoneProduced
    /\ \A i \in 1..Len(log) :
          /\ IsBranch(log[i]) => log[i][4] = Panic("if requires a boolean condition")
          /\ IsApplyOf(log[i], "if") =>
                IF Len(log[i][4]) = 3
                THEN log[i][5] = NoResult
                ELSE log[i][5] = Panic("if requires three arguments")

\* x has been bound by an earlier evaluation, and an if with three arguments
\* has failed on its condition.
C22_Witness ==
    /\ status = "panicked"
    /\ result = Panic("if requires a boolean condition")
    /\ scopes[1]["x"] # Unbound
    /\ \E i \in 1..Len(log) : IsBranch(log[i])

\* The claim as it was stated: every if invocation fails on its condition.
C22_EveryIfFailsOnItsCondition ==
    /\ NoneProduced
    /\ \A i \in 1..Len(log) :
          /\ IsBranch(log[i]) => log[i][4] = Panic("if requires a boolean condition")
          /\ IsApplyOf(log[i], "if") => log[i][5] = NoResult

====
